---- MODULE Spec2Model ----
(***************************************************************************)
(* Spin-to-win cart page: the prize wheel (SpinWheel.tsx), the coupon hook *)
(* (useCoupon.ts), the cart hook (useCart.ts) and the page controller      *)
(* (CartPage.tsx) with the parts of CartSummary.tsx and WinModal.tsx that  *)
(* decide which handlers the user can reach.                               *)
(*                                                                         *)
(* Amounts are integer cents, probabilities integer hundredths, angles     *)
(* tenths of a degree.  A nullable value is a sequence of length 0 or 1.   *)
(***************************************************************************)
EXTENDS Integers, Sequences, FiniteSets, TLC

VARIABLES
    items,              \* useCart: CartItem[]
    discountPercent,    \* useCart: number | undefined
    discountLabel,      \* useCart: string | undefined
    coupon,             \* useCoupon: Coupon | null
    isWheelModalOpen,   \* CartPage state
    isWinModalOpen,     \* CartPage state
    isSpinning,         \* CartPage state
    wonPrize,           \* CartPage state: Prize | null
    wheelMounted,       \* a SpinWheel instance (and its listener) is in the DOM
    rotation,           \* SpinWheel state of the mounted instance
    selectedPrizeRef,   \* SpinWheel ref of the mounted instance: Prize | null
    prizes,             \* SpinWheel prop: the prize table the page passes
    pendingTimers,      \* handleWin timeouts that have not fired yet
    totals,             \* useCart: the memoized subtotal, discount and finalTotal
    confettiTimer,      \* WinModal: the effect's 300 ms timer is pending
    confettiCount,      \* history: confetti timers set since the prompt last opened
    spinCount,          \* history: spins started
    winCount,           \* history: calls of onWin
    reported,           \* history: the prize of the latest onWin call
    couponsCreated,     \* history: coupons built by createCouponFromPrize
    lastOp,             \* history: the handler that ran last
    spinInput,          \* history: what the latest handleSpin of the mounted wheel chose
    drawn               \* history: the Math.random() value behind the spin in progress

vars == <<items, discountPercent, discountLabel, coupon, isWheelModalOpen,
          isWinModalOpen, isSpinning, wonPrize, wheelMounted, rotation,
          selectedPrizeRef, pendingTimers, spinCount, winCount, reported,
          couponsCreated, lastOp, totals, prizes, spinInput, drawn,
          confettiTimer, confettiCount>>

cartVars == <<items, discountPercent, discountLabel>>
wheelVars == <<wheelMounted, rotation, selectedPrizeRef, spinInput>>
histVars == <<spinCount, winCount, reported, couponsCreated>>

----------------------------------------------------------------------------
(* Bounds *)

MaxQty == 2         \* the "+" button is not pressed beyond this quantity
MaxSpins == 2       \* spins started in one run

(* Values Math.random() and Date.now() can produce, cut to a few. *)
RandomValues == 0..99
ExtraTurns == 0..4
CodeSuffixes == {"K3F9", "0ABZ"}
Timestamps == {1000, 2000}

----------------------------------------------------------------------------
(* Nullable values *)

Null == <<>>
Some(x) == <<x>>
Get(o) == o[1]

----------------------------------------------------------------------------
(* Data *)

(* PRIZES with probability 0.02 for the last entry *)
PRIZES_Sum90 ==
    << [id |-> "prize-30",  label |-> "30% Off",    discountPercent |-> 30, probability |-> 2],
       [id |-> "prize-5a",  label |-> "5% Off",     discountPercent |-> 5,  probability |-> 18],
       [id |-> "prize-25",  label |-> "25% Off",    discountPercent |-> 25, probability |-> 5],
       [id |-> "prize-10a", label |-> "10% Off",    discountPercent |-> 10, probability |-> 15],
       [id |-> "prize-0",   label |-> "Try Again!", discountPercent |-> 0,  probability |-> 20],
       [id |-> "prize-15",  label |-> "15% Off",    discountPercent |-> 15, probability |-> 10],
       [id |-> "prize-5b",  label |-> "5% Off",     discountPercent |-> 5,  probability |-> 18],
       [id |-> "prize-20",  label |-> "20% Off",    discountPercent |-> 20, probability |-> 2] >>

PRIZES ==
    << [id |-> "prize-30",  label |-> "30% Off",    discountPercent |-> 30, probability |-> 2],
       [id |-> "prize-5a",  label |-> "5% Off",     discountPercent |-> 5,  probability |-> 18],
       [id |-> "prize-25",  label |-> "25% Off",    discountPercent |-> 25, probability |-> 5],
       [id |-> "prize-10a", label |-> "10% Off",    discountPercent |-> 10, probability |-> 15],
       [id |-> "prize-0",   label |-> "Try Again!", discountPercent |-> 0,  probability |-> 20],
       [id |-> "prize-15",  label |-> "15% Off",    discountPercent |-> 15, probability |-> 10],
       [id |-> "prize-5b",  label |-> "5% Off",     discountPercent |-> 5,  probability |-> 18],
       [id |-> "prize-20",  label |-> "20% Off",    discountPercent |-> 20, probability |-> 12] >>

MOCK_CART_ITEMS ==
    << [id |-> "sofa-001",  price |-> 249900, quantity |-> 1],
       [id |-> "table-001", price |-> 129900, quantity |-> 1] >>

PrizeSet == {PRIZES[i] : i \in 1..Len(PRIZES)}

----------------------------------------------------------------------------
(* useCart *)

RECURSIVE SumItems(_)
SumItems(its) ==
    IF its = <<>> THEN 0
    ELSE Head(its).price * Head(its).quantity + SumItems(Tail(its))

subtotal(its) == SumItems(its)

(* discount without the division by 100 *)
discount_Unscaled(its, dp) ==
    IF dp = Null \/ Get(dp) = 0 THEN 0
    ELSE subtotal(its) * Get(dp)

discount(its, dp) ==
    IF dp = Null \/ Get(dp) = 0 THEN 0
    ELSE (subtotal(its) * Get(dp)) \div 100

finalTotal(its, dp) == subtotal(its) - discount(its, dp)

(* The three memoized values as the hook computes them from scratch *)
computeTotals(its, dp) ==
    [subtotal   |-> subtotal(its),
     discount   |-> discount(its, dp),
     finalTotal |-> subtotal(its) - discount(its, dp)]

(* useMemo keeps discount while only the items change *)
useMemoTotals_StaleDiscount(prev, prevItems, prevDp, its, dp) ==
    LET st == IF its = prevItems THEN prev.subtotal ELSE subtotal(its)
        dc == IF dp = prevDp THEN prev.discount ELSE discount(its, dp)
        ft == IF st = prev.subtotal /\ dc = prev.discount THEN prev.finalTotal ELSE st - dc
    IN [subtotal |-> st, discount |-> dc, finalTotal |-> ft]

(* useMemo: a value is recomputed in a render iff one of its dependencies changed *)
useMemoTotals(prev, prevItems, prevDp, its, dp) ==
    LET st == IF its = prevItems THEN prev.subtotal ELSE subtotal(its)
        dc == IF st = prev.subtotal /\ dp = prevDp THEN prev.discount ELSE discount(its, dp)
        ft == IF st = prev.subtotal /\ dc = prev.discount THEN prev.finalTotal ELSE st - dc
    IN [subtotal |-> st, discount |-> dc, finalTotal |-> ft]

(* applyDiscount and removeDiscount give the pair <<discountPercent, discountLabel>> *)
applyDiscount(percent, label) == <<Some(percent), Some(label)>>

removeDiscount == <<Null, Null>>

(* updateQuantity without the "newQuantity < 1" return *)
updateQuantity_NoGuard(its, itemId, newQuantity) ==
    [i \in 1..Len(its) |->
        IF its[i].id = itemId THEN [its[i] EXCEPT !.quantity = newQuantity]
        ELSE its[i]]

updateQuantity(its, itemId, newQuantity) ==
    IF newQuantity < 1 THEN its
    ELSE [i \in 1..Len(its) |->
            IF its[i].id = itemId THEN [its[i] EXCEPT !.quantity = newQuantity]
            ELSE its[i]]

removeItem(its, itemId) == SelectSeq(its, LAMBDA it : it.id # itemId)

----------------------------------------------------------------------------
(* useCoupon *)

generateCouponCode(percent, randomChars) ==
    "SPIN-" \o ToString(percent) \o "-" \o randomChars

(* createCouponFromPrize with "< 0" for "<= 0" *)
createCouponFromPrize_ZeroPasses(prev, prize, randomChars, now) ==
    IF prize.discountPercent < 0 THEN <<Null, prev>>
    ELSE LET newCoupon == [code    |-> "SPIN-" \o ToString(prize.discountPercent) \o "-" \o randomChars,
                           percent |-> prize.discountPercent,
                           applied |-> FALSE,
                           wonAt   |-> now]
         IN <<Some(newCoupon), Some(newCoupon)>>

(* The pair <<returned value, live coupon afterwards>> *)
createCouponFromPrize(prev, prize, randomChars, now) ==
    IF prize.discountPercent <= 0 THEN <<Null, prev>>
    ELSE LET newCoupon == [code    |-> generateCouponCode(prize.discountPercent, randomChars),
                           percent |-> prize.discountPercent,
                           applied |-> FALSE,
                           wonAt   |-> now]
         IN <<Some(newCoupon), Some(newCoupon)>>

(* applyCoupon that also stamps the coupon anew *)
applyCoupon_Restamps(prev) ==
    IF prev # Null THEN Some([Get(prev) EXCEPT !.applied = TRUE, !.wonAt = 0]) ELSE Null

applyCoupon(prev) ==
    IF prev # Null THEN Some([Get(prev) EXCEPT !.applied = TRUE]) ELSE Null

(* ignoreCoupon that clears the coupon instead of keeping it *)
ignoreCoupon_Clears(prev) == Null

ignoreCoupon(prev) ==
    IF prev # Null THEN Some([Get(prev) EXCEPT !.applied = FALSE]) ELSE Null

clearCoupon == Null

hasSpunOf(c) == c # Null

hasUnappliedCouponOf(c) == c # Null /\ ~Get(c).applied /\ Get(c).percent > 0

hasSpun == hasSpunOf(coupon)

hasUnappliedCoupon == hasUnappliedCouponOf(coupon)

----------------------------------------------------------------------------
(* SpinWheel *)

FullTurn == 3600    \* 360 degrees

NaN == -1           \* the not-a-number value; every real rotation is >= 0

(* JavaScript "+" on rotations *)
Plus(a, b) == IF a = NaN \/ b = NaN THEN NaN ELSE a + b

(* The probabilities of the first n entries, added up *)
RECURSIVE Cumulative(_, _)
Cumulative(table, n) ==
    IF n = 0 THEN 0 ELSE Cumulative(table, n - 1) + table[n].probability

RECURSIVE SelectFrom(_, _, _, _)
SelectFrom(table, i, cumulative, random) ==
    IF i > Len(table)
    THEN (IF Len(table) = 0 THEN Null ELSE Some(table[Len(table)]))
    ELSE IF random <= cumulative + table[i].probability THEN Some(table[i])
    ELSE SelectFrom(table, i + 1, cumulative + table[i].probability, random)

(* selectPrize with the fallback "return prizes[0]" *)
selectPrize_FallbackFirst(table, random) ==
    IF Len(table) > 0 /\ random > Cumulative(table, Len(table))
    THEN Some(table[1])
    ELSE SelectFrom(table, 1, 0, random)

(* The result is a nullable prize: prizes[-1] of an empty table is undefined *)
selectPrize(table, random) == SelectFrom(table, 1, 0, random)

(* table.findIndex(p => p.id === id), 0-based, -1 when no entry matches *)
findIndex(table, id) ==
    IF \E i \in 1..Len(table) : table[i].id = id
    THEN (CHOOSE i \in 1..Len(table) :
            /\ table[i].id = id
            /\ \A j \in 1..(i - 1) : table[j].id # id) - 1
    ELSE -1

(* baseAngle as (360 - ((segmentCenter + 90) mod 360)) mod 360 *)
baseAngle_Reduced(table, prizeIndex) ==
    LET segmentAngle == FullTurn \div Len(table)
        segmentCenter == segmentAngle * prizeIndex + segmentAngle \div 2
    IN (FullTurn - ((segmentCenter + FullTurn \div 4) % FullTurn)) % FullTurn

(* The alignment part of the winning angle: 360 - segmentCenter + 90 *)
baseAngle(table, prizeIndex) ==
    LET segmentAngle == FullTurn \div Len(table)
        segmentCenter == segmentAngle * prizeIndex + segmentAngle \div 2
    IN FullTurn - segmentCenter + FullTurn \div 4

(* calculateWinningAngle with "- 90" for "+ 90" *)
calculateWinningAngle_Minus90(table, prizeIndex, extra) ==
    LET segmentAngle == FullTurn \div Len(table)
        segmentCenter == segmentAngle * prizeIndex + segmentAngle \div 2
        base == FullTurn - segmentCenter - FullTurn \div 4
        fullRotations == (6 + extra) * FullTurn
    IN IF Len(table) = 0 THEN NaN ELSE fullRotations + base

(* With an empty table 360 / 0 is Infinity and Infinity * -1 + Infinity is NaN *)
calculateWinningAngle(table, prizeIndex, extra) ==
    LET fullRotations == (6 + extra) * FullTurn
    IN IF Len(table) = 0 THEN NaN ELSE fullRotations + baseAngle(table, prizeIndex)

(* The wheel as drawn: conic-gradient(from -90deg, ...) with 0deg at the top *)
(* and angles growing clockwise; the pointer sits at the top centre         *)
GradientFrom == -900

PointerAngle == 0

(* An angle brought into [0, 360) *)
Normalize(angle) == ((angle % FullTurn) + FullTurn) % FullTurn

(* Where the middle of arc number index (0-based) sits on the unrotated wheel *)
arcCentre(table, index) ==
    LET segmentAngle == FullTurn \div Len(table)
        startAngle == segmentAngle * index
        endAngle == segmentAngle * (index + 1)
    IN GradientFrom + (startAngle + endAngle) \div 2

(* Where that arc sits once the wheel is turned by rotate(<rotation>deg) *)
arcPosition(table, index, turned) == Normalize(arcCentre(table, index) + turned)

(* A label is a box with its left edge on the wheel's centre, so unrotated  *)
(* it points right, to 3 o'clock: 90 degrees clockwise from the top         *)
LabelAxis == 900

(* The rotate() angle of label number index (0-based); CSS turns clockwise *)
labelAngle(table, index) ==
    LET segmentAngle == FullTurn \div Len(table)
    IN segmentAngle * index + segmentAngle \div 2 - 900

(* Where that label sits, clockwise from the top, once the wheel is turned *)
labelPosition(table, index, turned) ==
    Normalize(LabelAxis + labelAngle(table, index) + turned)

----------------------------------------------------------------------------
(* CartPage *)

(* the banner's label spelled differently from the table's *)
PercentLabel_Lowercase(percent) == ToString(percent) \o "% off"

PercentLabel(percent) == ToString(percent) \o "% Off"

(* The effect on [coupon]: an applied coupon is pushed into the cart.      *)
(* Gives the pair <<discountPercent, discountLabel>> after the effect.     *)
(* the effect made to withdraw the discount of a coupon that is not applied *)
couponEffect_Withdraws(c, dp, dl) ==
    IF c # Null /\ Get(c).applied /\ Get(c).percent > 0
    THEN applyDiscount(Get(c).percent, PercentLabel(Get(c).percent))
    ELSE removeDiscount

couponEffect(c, dp, dl) ==
    IF c # Null /\ Get(c).applied /\ Get(c).percent > 0
    THEN applyDiscount(Get(c).percent, PercentLabel(Get(c).percent))
    ELSE <<dp, dl>>

isWinner(prize) == prize # Null /\ Get(prize).discountPercent > 0

(* WinModal renders nothing unless it is open and has a prize *)
WinModalVisible == isWinModalOpen /\ wonPrize # Null

(* React has committed the wheel modal's mount or unmount *)
Committed == wheelMounted = isWheelModalOpen

(* The page behind the modals takes clicks only when no backdrop covers it *)
PageClickable == Committed /\ ~isWheelModalOpen /\ ~WinModalVisible

(* The wheel modal takes clicks unless the win modal lies over it *)
WheelClickable == Committed /\ isWheelModalOpen /\ ~WinModalVisible

CartSummaryShown == items # <<>>

(* CartSummary: the spin banner and the unused-discount banner *)
(* the spin banner without its hasSpun condition *)
SpinBannerShown_Always == CartSummaryShown

SpinBannerShown == CartSummaryShown /\ ~hasSpun

UnusedDiscountBannerShown ==
    CartSummaryShown /\ hasUnappliedCoupon /\ Get(coupon).percent # 0

(* The state after the first render of a page whose cart holds its *)
InitWith(its, table) ==
    /\ items = its
    /\ prizes = table
    /\ spinInput = Null
    /\ drawn = Null
    /\ confettiTimer = FALSE
    /\ confettiCount = 0
    /\ discountPercent = Null
    /\ discountLabel = Null
    /\ coupon = Null
    /\ isWheelModalOpen = FALSE
    /\ isWinModalOpen = FALSE
    /\ isSpinning = FALSE
    /\ wonPrize = Null
    /\ wheelMounted = FALSE
    /\ rotation = 0
    /\ selectedPrizeRef = Null
    /\ pendingTimers = 0
    /\ spinCount = 0
    /\ winCount = 0
    /\ reported = Null
    /\ couponsCreated = 0
    /\ lastOp = "init"
    /\ totals = computeTotals(its, Null)

Init == InitWith(MOCK_CART_ITEMS, PRIZES)

(* WinModal's effect with no cleanup function *)
confettiEffect_NoCleanup(timer, wasOn, isOn) ==
    IF ~wasOn /\ isOn THEN TRUE ELSE timer

(* WinModal's effect on [isOpen, isWinner]: when the two change, the cleanup *)
(* of the previous run clears its timer, then the effect sets a timer if the *)
(* modal is open with a winning prize.  The result is "a timer is pending".  *)
confettiEffect(timer, wasOn, isOn) ==
    IF wasOn = isOn THEN timer ELSE isOn

(* The render after a handler: useCart re-evaluates its memoized totals, the *)
(* page passes the same table to the wheel, WinModal runs its effect         *)
Render ==
    /\ totals' = useMemoTotals(totals, items, discountPercent, items', discountPercent')
    /\ prizes' = prizes
    /\ LET wasOn == isWinModalOpen /\ isWinner(wonPrize)
           isOn == isWinModalOpen' /\ isWinner(wonPrize')
       IN /\ confettiTimer' = confettiEffect(confettiTimer, wasOn, isOn)
          /\ confettiCount' = IF ~isWinModalOpen' THEN 0
                              ELSE IF ~wasOn /\ isOn THEN confettiCount + 1
                              ELSE confettiCount

(* The effect's timer fires: fireConfetti *)
FireConfetti ==
    /\ confettiTimer
    /\ confettiTimer' = FALSE
    /\ lastOp' = "fireConfetti"
    /\ UNCHANGED <<cartVars, coupon, isWheelModalOpen, isWinModalOpen, isSpinning,
                   wonPrize, wheelVars, pendingTimers, histVars, drawn, totals,
                   prizes, confettiCount>>

(* The spin banner of CartSummary *)
(* The "Spin Now" button of the banner can be pressed *)
OpenWheelAvailable == PageClickable /\ SpinBannerShown

HandleOpenWheel ==
    /\ OpenWheelAvailable
    /\ isWheelModalOpen' = TRUE
    /\ wheelMounted' = TRUE
    /\ rotation' = 0
    /\ selectedPrizeRef' = Null
    /\ spinInput' = Null
    /\ lastOp' = "handleOpenWheel"
    /\ UNCHANGED <<cartVars, coupon, isWinModalOpen, isSpinning, wonPrize,
                   pendingTimers, histVars>>
    /\ UNCHANGED drawn
    /\ Render

(* Unmounting the SpinWheel instance drops its state and its ref *)
UnmountWheel ==
    /\ wheelMounted' = FALSE
    /\ rotation' = 0
    /\ selectedPrizeRef' = Null
    /\ spinInput' = Null

(* the backdrop without its isSpinning condition *)
CloseWheelBackdrop_Unguarded ==
    /\ WheelClickable
    /\ isWheelModalOpen' = FALSE
    /\ UnmountWheel
    /\ lastOp' = "closeWheelBackdrop"
    /\ UNCHANGED <<cartVars, coupon, isWinModalOpen, isSpinning, wonPrize,
                   pendingTimers, histVars>>
    /\ UNCHANGED drawn
    /\ Render

CloseWheelBackdrop ==
    /\ WheelClickable
    /\ IF ~isSpinning
       THEN isWheelModalOpen' = FALSE /\ UnmountWheel
       ELSE UNCHANGED <<isWheelModalOpen, wheelVars>>
    /\ lastOp' = "closeWheelBackdrop"
    /\ UNCHANGED <<cartVars, coupon, isWinModalOpen, isSpinning, wonPrize,
                   pendingTimers, histVars>>
    /\ UNCHANGED drawn
    /\ Render

(* the close button rendered while spinning too *)
CloseWheelButton_WhileSpinning ==
    /\ WheelClickable
    /\ isWheelModalOpen' = FALSE
    /\ UnmountWheel
    /\ lastOp' = "closeWheelButton"
    /\ UNCHANGED <<cartVars, coupon, isWinModalOpen, isSpinning, wonPrize,
                   pendingTimers, histVars>>
    /\ UNCHANGED drawn
    /\ Render

CloseWheelButton ==
    /\ WheelClickable
    /\ ~isSpinning
    /\ isWheelModalOpen' = FALSE
    /\ UnmountWheel
    /\ lastOp' = "closeWheelButton"
    /\ UNCHANGED <<cartVars, coupon, isWinModalOpen, isSpinning, wonPrize,
                   pendingTimers, histVars>>
    /\ UNCHANGED drawn
    /\ Render

(* What handleSpin does past its isSpinning check *)
StartSpin(random, extra) ==
    LET selectedPrize == selectPrize(prizes, random)
        prizeIndex == IF selectedPrize = Null THEN -1
                      ELSE findIndex(prizes, Get(selectedPrize).id)
        winningAngle == calculateWinningAngle(prizes, prizeIndex, extra)
    IN /\ selectedPrizeRef' = selectedPrize
       /\ rotation' = Plus(rotation, winningAngle)
       /\ spinInput' = Some([selected |-> selectedPrize, prizeIndex |-> prizeIndex,
                             extra |-> extra, prev |-> rotation])
       /\ isSpinning' = TRUE
       /\ drawn' = Some(random)

(* handleSpin without "if (isSpinning) return" *)
HandleSpin_NoGuard ==
    /\ WheelClickable
    /\ isSpinning \/ spinCount < MaxSpins
    /\ \E random \in RandomValues, extra \in ExtraTurns : StartSpin(random, extra)
    /\ spinCount' = IF isSpinning THEN spinCount ELSE spinCount + 1
    /\ lastOp' = IF isSpinning THEN "handleSpin:whileSpinning" ELSE "handleSpin"
    /\ UNCHANGED <<cartVars, coupon, isWheelModalOpen, isWinModalOpen, wonPrize,
                   wheelMounted, pendingTimers, winCount, reported, couponsCreated>>
    /\ Render

(* handleSpin: a call while isSpinning returns at once *)
HandleSpin ==
    /\ WheelClickable
    /\ isSpinning \/ spinCount < MaxSpins
    /\ IF isSpinning
       THEN UNCHANGED <<isSpinning, selectedPrizeRef, rotation, spinInput, drawn>>
       ELSE \E random \in RandomValues, extra \in ExtraTurns : StartSpin(random, extra)
    /\ spinCount' = IF isSpinning THEN spinCount ELSE spinCount + 1
    /\ lastOp' = IF isSpinning THEN "handleSpin:whileSpinning" ELSE "handleSpin"
    /\ UNCHANGED <<cartVars, coupon, isWheelModalOpen, isWinModalOpen, wonPrize,
                   wheelMounted, pendingTimers, winCount, reported, couponsCreated>>
    /\ Render

(* handleWin without its setTimeout *)
handleWin_NoPrompt(prize) ==
    /\ wonPrize' = Some(prize)
    /\ \E randomChars \in CodeSuffixes, now \in Timestamps :
          LET created == createCouponFromPrize(coupon, prize, randomChars, now)
          IN /\ coupon' = created[2]
             /\ couponsCreated' = couponsCreated + (IF created[1] # Null THEN 1 ELSE 0)
             /\ discountPercent' = couponEffect(created[2], discountPercent, discountLabel)[1]
             /\ discountLabel' = couponEffect(created[2], discountPercent, discountLabel)[2]
    /\ isWheelModalOpen' = FALSE
    /\ pendingTimers' = pendingTimers
    /\ winCount' = winCount + 1
    /\ reported' = Some(prize)

(* handleWin(prize), called by the wheel as onWin *)
handleWin(prize) ==
    /\ wonPrize' = Some(prize)
    /\ \E randomChars \in CodeSuffixes, now \in Timestamps :
          LET created == createCouponFromPrize(coupon, prize, randomChars, now)
          IN /\ coupon' = created[2]
             /\ couponsCreated' = couponsCreated + (IF created[1] # Null THEN 1 ELSE 0)
             /\ discountPercent' = couponEffect(created[2], discountPercent, discountLabel)[1]
             /\ discountLabel' = couponEffect(created[2], discountPercent, discountLabel)[2]
    /\ isWheelModalOpen' = FALSE
    /\ pendingTimers' = pendingTimers + 1
    /\ winCount' = winCount + 1
    /\ reported' = Some(prize)

(* the listener without "selectedPrizeRef.current = null" *)
HandleTransitionEnd_KeepsPending ==
    /\ wheelMounted
    /\ IF selectedPrizeRef # Null
       THEN /\ isSpinning' = FALSE
            /\ handleWin(Get(selectedPrizeRef))
            /\ drawn' = Null
            /\ lastOp' = "handleTransitionEnd"
            /\ UNCHANGED <<items, isWinModalOpen, wheelVars, spinCount>>
       ELSE /\ lastOp' = "handleTransitionEnd:none"
            /\ UNCHANGED drawn
            /\ UNCHANGED <<cartVars, coupon, isWheelModalOpen, isWinModalOpen,
                           isSpinning, wonPrize, wheelVars, pendingTimers, histVars>>
    /\ Render

(* The transitionend listener of the mounted wheel *)
HandleTransitionEnd ==
    /\ wheelMounted
    /\ IF selectedPrizeRef # Null
       THEN /\ isSpinning' = FALSE
            /\ handleWin(Get(selectedPrizeRef))
            /\ selectedPrizeRef' = Null
            /\ drawn' = Null
            /\ lastOp' = "handleTransitionEnd"
            /\ UNCHANGED <<items, isWinModalOpen, wheelMounted, rotation, spinInput,
                           spinCount>>
       ELSE /\ lastOp' = "handleTransitionEnd:none"
            /\ UNCHANGED drawn
            /\ UNCHANGED <<cartVars, coupon, isWheelModalOpen, isWinModalOpen,
                           isSpinning, wonPrize, wheelVars, pendingTimers, histVars>>
    /\ Render

(* React commits the render that removes the closed wheel modal *)
CommitUnmount ==
    /\ wheelMounted
    /\ ~isWheelModalOpen
    /\ UnmountWheel
    /\ lastOp' = "commitUnmount"
    /\ UNCHANGED <<cartVars, coupon, isWheelModalOpen, isWinModalOpen, isSpinning,
                   wonPrize, pendingTimers, histVars>>
    /\ UNCHANGED drawn
    /\ Render

(* The 300 ms timeout of handleWin *)
PromptTimer ==
    /\ Committed
    /\ pendingTimers > 0
    /\ pendingTimers' = pendingTimers - 1
    /\ isWinModalOpen' = TRUE
    /\ lastOp' = "promptTimer"
    /\ UNCHANGED <<cartVars, coupon, isWheelModalOpen, isSpinning, wonPrize,
                   wheelVars, histVars>>
    /\ UNCHANGED drawn
    /\ Render

(* What a handler leaves in <<coupon, discountPercent, discountLabel>>,      *)
(* the effect on [coupon] included: it runs after every setCoupon that        *)
(* stores a coupon object.                                                    *)
WithEffect(c, dp, dl) == <<c>> \o couponEffect(c, dp, dl)

handleApplyDiscount(c, prize, dp, dl) ==
    IF prize # Null /\ Get(prize).discountPercent > 0
    THEN LET pushed == applyDiscount(Get(prize).discountPercent, Get(prize).label)
         IN WithEffect(applyCoupon(c), pushed[1], pushed[2])
    ELSE <<c, dp, dl>>

(* handleIgnoreDiscount calling clearCoupon *)
handleIgnoreDiscount_Clears(c, dp, dl) == WithEffect(clearCoupon, dp, dl)

handleIgnoreDiscount(c, dp, dl) == WithEffect(ignoreCoupon(c), dp, dl)

handleApplyUnapplied(c, dp, dl) ==
    IF c # Null /\ Get(c).percent > 0
    THEN LET pushed == applyDiscount(Get(c).percent, PercentLabel(Get(c).percent))
         IN WithEffect(applyCoupon(c), pushed[1], pushed[2])
    ELSE <<c, dp, dl>>

(* handleCloseWinModal calling removeDiscount next to ignoreCoupon *)
handleCloseWinModal_RemovesDiscount(c, prize, dp, dl) ==
    IF prize # Null /\ Get(prize).discountPercent > 0
    THEN WithEffect(ignoreCoupon(c), removeDiscount[1], removeDiscount[2])
    ELSE <<c, dp, dl>>

handleCloseWinModal(c, prize, dp, dl) ==
    IF prize # Null /\ Get(prize).discountPercent > 0
    THEN WithEffect(ignoreCoupon(c), dp, dl)
    ELSE <<c, dp, dl>>

StoreResult(result) ==
    /\ coupon' = result[1]
    /\ discountPercent' = result[2]
    /\ discountLabel' = result[3]

(* "Apply Discount" in the prompt; the button is shown to winners only *)
HandleApplyDiscount ==
    /\ WinModalVisible
    /\ isWinner(wonPrize)
    /\ StoreResult(handleApplyDiscount(coupon, wonPrize, discountPercent, discountLabel))
    /\ isWinModalOpen' = FALSE
    /\ wonPrize' = Null
    /\ lastOp' = "handleApplyDiscount"
    /\ UNCHANGED <<items, isWheelModalOpen, isSpinning, wheelVars, pendingTimers, histVars>>
    /\ UNCHANGED drawn
    /\ Render

(* "Maybe Later" in the prompt; the button is shown to winners only *)
HandleIgnoreDiscount ==
    /\ WinModalVisible
    /\ isWinner(wonPrize)
    /\ StoreResult(handleIgnoreDiscount(coupon, discountPercent, discountLabel))
    /\ isWinModalOpen' = FALSE
    /\ wonPrize' = Null
    /\ lastOp' = "handleIgnoreDiscount"
    /\ UNCHANGED <<items, isWheelModalOpen, isSpinning, wheelVars, pendingTimers, histVars>>
    /\ UNCHANGED drawn
    /\ Render

(* Backdrop, close button, or "Continue Shopping" of the prompt *)
HandleCloseWinModal ==
    /\ WinModalVisible
    /\ isWinModalOpen' = FALSE
    /\ wonPrize' = Null
    /\ StoreResult(handleCloseWinModal(coupon, wonPrize, discountPercent, discountLabel))
    /\ lastOp' = "handleCloseWinModal"
    /\ UNCHANGED <<items, isWheelModalOpen, isSpinning, wheelVars, pendingTimers, histVars>>
    /\ UNCHANGED drawn
    /\ Render

(* "Apply Now" in the unused-discount banner of CartSummary *)
HandleApplyUnapplied ==
    /\ PageClickable
    /\ UnusedDiscountBannerShown
    /\ StoreResult(handleApplyUnapplied(coupon, discountPercent, discountLabel))
    /\ lastOp' = "handleApplyUnapplied"
    /\ UNCHANGED <<items, isWheelModalOpen, isWinModalOpen, isSpinning, wonPrize,
                   wheelVars, pendingTimers, histVars>>
    /\ UNCHANGED drawn
    /\ Render

(* The "-" button of an item: disabled at quantity 1 *)
DecreaseQuantity ==
    /\ PageClickable
    /\ \E i \in 1..Len(items) :
          /\ items[i].quantity > 1
          /\ items' = updateQuantity(items, items[i].id, items[i].quantity - 1)
    /\ lastOp' = "updateQuantity"
    /\ UNCHANGED <<discountPercent, discountLabel, coupon, isWheelModalOpen, isWinModalOpen,
                   isSpinning, wonPrize, wheelVars, pendingTimers, histVars>>
    /\ UNCHANGED drawn
    /\ Render

(* The "+" button of an item *)
IncreaseQuantity ==
    /\ PageClickable
    /\ \E i \in 1..Len(items) :
          /\ items[i].quantity < MaxQty
          /\ items' = updateQuantity(items, items[i].id, items[i].quantity + 1)
    /\ lastOp' = "updateQuantity"
    /\ UNCHANGED <<discountPercent, discountLabel, coupon, isWheelModalOpen, isWinModalOpen,
                   isSpinning, wonPrize, wheelVars, pendingTimers, histVars>>
    /\ UNCHANGED drawn
    /\ Render

(* The trash button of an item *)
RemoveItem ==
    /\ PageClickable
    /\ \E i \in 1..Len(items) :
          items' = removeItem(items, items[i].id)
    /\ lastOp' = "removeItem"
    /\ UNCHANGED <<discountPercent, discountLabel, coupon, isWheelModalOpen, isWinModalOpen,
                   isSpinning, wonPrize, wheelVars, pendingTimers, histVars>>
    /\ UNCHANGED drawn
    /\ Render

Next ==
    \/ HandleOpenWheel
    \/ CloseWheelBackdrop
    \/ CloseWheelButton
    \/ HandleSpin
    \/ HandleTransitionEnd
    \/ CommitUnmount
    \/ PromptTimer
    \/ HandleApplyDiscount
    \/ HandleIgnoreDiscount
    \/ HandleCloseWinModal
    \/ HandleApplyUnapplied
    \/ DecreaseQuantity
    \/ IncreaseQuantity
    \/ RemoveItem
    \/ FireConfetti

Spec == Init /\ [][Next]_vars

(* The animation ends and React commits: the browser and the scheduler do both *)
FairSpec ==
    /\ Spec
    /\ WF_vars(HandleTransitionEnd)
    /\ WF_vars(CommitUnmount)

----------------------------------------------------------------------------
(* The page with the clock taken into account.  The wheel's transition (the  *)
(* .spin-wheel style) is the one latency-bearing operation and outlasts the  *)
(* 300 ms of handleWin's timer: a spin starts after the win before it, so    *)
(* when its animation ends every timer set by an earlier win has fired.      *)

AnimationOutlastsPromptDelay == pendingTimers = 0

SettledTransitionEnd == AnimationOutlastsPromptDelay /\ HandleTransitionEnd

NextTimed ==
    \/ HandleOpenWheel
    \/ CloseWheelBackdrop
    \/ CloseWheelButton
    \/ HandleSpin
    \/ SettledTransitionEnd
    \/ CommitUnmount
    \/ PromptTimer
    \/ HandleApplyDiscount
    \/ HandleIgnoreDiscount
    \/ HandleCloseWinModal
    \/ HandleApplyUnapplied
    \/ DecreaseQuantity
    \/ IncreaseQuantity
    \/ RemoveItem
    \/ FireConfetti

SpecTimed == Init /\ [][NextTimed]_vars

(* The scheduler commits renders and runs timers that are due *)
FairSpecTimed ==
    /\ SpecTimed
    /\ WF_vars(SettledTransitionEnd)
    /\ WF_vars(CommitUnmount)
    /\ WF_vars(PromptTimer)

----------------------------------------------------------------------------
(* useCart on its own: the four operations called in any order with any     *)
(* argument, valid or not                                                   *)

InitialCarts ==
    { MOCK_CART_ITEMS,
      << [id |-> "chair-001", price |-> 100000, quantity |-> 1] >> }

UnknownId == "lamp-404"

ItemIds == {"sofa-001", "table-001", "chair-001", UnknownId}

Quantities == 0..MaxQty

HasItem(its, itemId) == \E i \in 1..Len(its) : its[i].id = itemId

InitCart == \E its \in InitialCarts : InitWith(its, PRIZES)

pageVars ==
    <<coupon, isWheelModalOpen, isWinModalOpen, isSpinning, wonPrize,
      pendingTimers, wheelVars, histVars>>

CartUpdateQuantity ==
    /\ \E itemId \in ItemIds, newQuantity \in Quantities :
          /\ items' = updateQuantity(items, itemId, newQuantity)
          /\ lastOp' = IF newQuantity < 1 THEN "updateQuantity:belowOne"
                       ELSE IF ~HasItem(items, itemId) THEN "updateQuantity:unknownId"
                       ELSE "updateQuantity"
    /\ UNCHANGED <<discountPercent, discountLabel, pageVars>>
    /\ UNCHANGED drawn
    /\ Render

CartRemoveItem ==
    /\ \E itemId \in ItemIds :
          /\ items' = removeItem(items, itemId)
          /\ lastOp' = IF ~HasItem(items, itemId) THEN "removeItem:unknownId"
                       ELSE "removeItem"
    /\ UNCHANGED <<discountPercent, discountLabel, pageVars>>
    /\ UNCHANGED drawn
    /\ Render

CartApplyDiscount ==
    /\ \E prize \in PrizeSet :
          /\ discountPercent' = applyDiscount(prize.discountPercent, prize.label)[1]
          /\ discountLabel' = applyDiscount(prize.discountPercent, prize.label)[2]
    /\ lastOp' = "applyDiscount"
    /\ UNCHANGED <<items, pageVars>>
    /\ UNCHANGED drawn
    /\ Render

(* removeDiscount without setDiscountPercent(undefined) *)
CartRemoveDiscount_LabelOnly ==
    /\ discountLabel' = removeDiscount[2]
    /\ lastOp' = IF discountPercent = Null THEN "removeDiscount:none" ELSE "removeDiscount"
    /\ UNCHANGED <<items, discountPercent, pageVars>>
    /\ UNCHANGED drawn
    /\ Render

CartRemoveDiscount ==
    /\ discountPercent' = removeDiscount[1]
    /\ discountLabel' = removeDiscount[2]
    /\ lastOp' = IF discountPercent = Null THEN "removeDiscount:none" ELSE "removeDiscount"
    /\ UNCHANGED <<items, pageVars>>
    /\ UNCHANGED drawn
    /\ Render

NextCart ==
    \/ CartUpdateQuantity
    \/ CartRemoveItem
    \/ CartApplyDiscount
    \/ CartRemoveDiscount

SpecCart == InitCart /\ [][NextCart]_vars

----------------------------------------------------------------------------
(* useCart and useCoupon side by side, tied by the page's effect on the     *)
(* coupon; every operation of either hook called in any order               *)

hookFrame ==
    <<isWheelModalOpen, isWinModalOpen, isSpinning, wonPrize, pendingTimers,
      wheelVars, histVars, drawn>>

CouponCreate ==
    /\ \E prize \in PrizeSet, randomChars \in CodeSuffixes, now \in Timestamps :
          LET created == createCouponFromPrize(coupon, prize, randomChars, now)
          IN /\ IF created[1] = Null
                THEN UNCHANGED <<coupon, discountPercent, discountLabel>>
                ELSE StoreResult(WithEffect(created[2], discountPercent, discountLabel))
             /\ lastOp' = IF created[1] = Null THEN "createCouponFromPrize:none"
                          ELSE "createCouponFromPrize"
    /\ UNCHANGED <<items, hookFrame>>
    /\ Render

CouponApply ==
    /\ StoreResult(WithEffect(applyCoupon(coupon), discountPercent, discountLabel))
    /\ lastOp' = IF coupon = Null THEN "applyCoupon:none" ELSE "applyCoupon"
    /\ UNCHANGED <<items, hookFrame>>
    /\ Render

CouponIgnore ==
    /\ StoreResult(WithEffect(ignoreCoupon(coupon), discountPercent, discountLabel))
    /\ lastOp' = IF coupon = Null THEN "ignoreCoupon:none" ELSE "ignoreCoupon"
    /\ UNCHANGED <<items, hookFrame>>
    /\ Render

CouponClear ==
    /\ StoreResult(WithEffect(clearCoupon, discountPercent, discountLabel))
    /\ lastOp' = "clearCoupon"
    /\ UNCHANGED <<items, hookFrame>>
    /\ Render

NextHooks ==
    \/ CartUpdateQuantity
    \/ CartRemoveItem
    \/ CartApplyDiscount
    \/ CartRemoveDiscount
    \/ CouponCreate
    \/ CouponApply
    \/ CouponIgnore
    \/ CouponClear

SpecHooks == Init /\ [][NextHooks]_vars

----------------------------------------------------------------------------
(* The page around a wheel that is handed any table: the page's own, an     *)
(* empty one, one whose probabilities sum to 0.90                           *)

EMPTY_TABLE == <<>>

SHORT_TABLE ==
    << [id |-> "short-10", label |-> "10% Off",    discountPercent |-> 10, probability |-> 40],
       [id |-> "short-0",  label |-> "Try Again!", discountPercent |-> 0,  probability |-> 50] >>

Tables == {PRIZES, EMPTY_TABLE, SHORT_TABLE}

InitTables == \E table \in Tables : InitWith(MOCK_CART_ITEMS, table)

SpecTables == InitTables /\ [][Next]_vars

----------------------------------------------------------------------------
(* Claims *)

\* C1: every spin is reported to onWin at most once, with the prize drawn at
\* spin start; the report clears the pending prize, and an animation-end
\* signal that finds no pending prize changes nothing (no onWin, no coupon
\* change, isSpinning unchanged).
C1_WinReportedAtMostOnce ==
    /\ [](winCount <= spinCount /\ spinCount <= winCount + 1)
    /\ [][ /\ winCount' \in {winCount, winCount + 1}
           /\ (winCount' = winCount + 1) =>
                 /\ selectedPrizeRef # Null
                 /\ reported' = selectedPrizeRef
                 /\ wonPrize' = selectedPrizeRef
                 /\ selectedPrizeRef' = Null
           /\ (selectedPrizeRef # Null) => selectedPrizeRef' \in {selectedPrizeRef, Null}
           /\ (lastOp' = "handleTransitionEnd:none") =>
                 /\ selectedPrizeRef = Null
                 /\ UNCHANGED <<winCount, reported, coupon, couponsCreated, isSpinning,
                                wonPrize, cartVars, pendingTimers>> ]_vars

\* C1 witness: after a spin was reported, a second animation-end signal reached
\* the listener of the same wheel and was absorbed.
C1_Witness ==
    /\ lastOp = "handleTransitionEnd:none"
    /\ wheelMounted /\ ~isWheelModalOpen
    /\ winCount = 1 /\ spinCount = 1
    /\ wonPrize = reported

\* C2: under fairness of the animation-end signal, a spinning wheel eventually
\* stops spinning with its spin reported, and the step that ends the spinning
\* is the report of the drawn prize.
C2_SpinCompletes ==
    /\ (isSpinning ~> (~isSpinning /\ winCount = spinCount))
    /\ [][ (isSpinning /\ ~isSpinning') =>
              /\ selectedPrizeRef # Null
              /\ reported' = selectedPrizeRef
              /\ winCount' = winCount + 1 ]_vars

\* C2 witness: a spin has been started and has completed with its report.
C2_Witness ==
    /\ lastOp = "handleTransitionEnd"
    /\ ~isSpinning
    /\ winCount = spinCount /\ spinCount > 0
    /\ reported # Null

\* C3: createCouponFromPrize returns no coupon and keeps the live coupon iff
\* the prize's discountPercent is 0; otherwise the returned coupon has
\* applied = FALSE and the prize's percent and is the live coupon, whatever
\* was live before.  Every live coupon has percent > 0.
C3_CreateCouponFromPrize ==
    /\ \A prize \in PrizeSet, randomChars \in CodeSuffixes, now \in Timestamps :
          LET created == createCouponFromPrize(coupon, prize, randomChars, now)
          IN /\ (created[1] = Null /\ created[2] = coupon) <=> (prize.discountPercent = 0)
             /\ (prize.discountPercent # 0) =>
                   /\ created[1] # Null
                   /\ Get(created[1]).applied = FALSE
                   /\ Get(created[1]).percent = prize.discountPercent
                   /\ created[2] = created[1]
    /\ (coupon # Null) => Get(coupon).percent > 0

\* C3 witness: a spin on a discount prize has just created the live coupon.
C3_Witness ==
    /\ lastOp = "handleTransitionEnd"
    /\ coupon # Null
    /\ reported # Null
    /\ Get(coupon).percent = Get(reported).discountPercent
    /\ ~Get(coupon).applied

\* C4: after a spin completes on a prize with discountPercent = 0 there is no
\* coupon, hasUnappliedCoupon is false and hasSpun is true.
C4_ZeroDiscountSpin ==
    (lastOp = "handleTransitionEnd" /\ Get(reported).discountPercent = 0) =>
        /\ coupon = Null
        /\ ~hasUnappliedCoupon
        /\ hasSpun

\* C5: once a spin has completed the spin banner is not shown and no second
\* spin is started.
C5_OneSpinPerSession ==
    (winCount >= 1) => (~SpinBannerShown /\ spinCount = 1)

\* C6: Apply in the prompt for a prize with discountPercent > 0 leaves the
\* prize's percent and label as the cart's discount, the live coupon applied,
\* the prompt closed and the won prize cleared.
C6_ApplyPath ==
    [][ (lastOp' = "handleApplyDiscount") =>
           /\ isWinner(wonPrize)
           /\ discountPercent' = Some(Get(wonPrize).discountPercent)
           /\ discountLabel' = Some(Get(wonPrize).label)
           /\ coupon' # Null
           /\ Get(coupon').applied
           /\ ~isWinModalOpen'
           /\ wonPrize' = Null ]_vars

\* C6 witness: the prompt's Apply has run and the cart carries a discount.
C6_Witness ==
    /\ lastOp = "handleApplyDiscount"
    /\ discountPercent # Null
    /\ discountLabel = Some(Get(reported).label)
    /\ coupon # Null /\ Get(coupon).applied
    /\ discount(items, discountPercent) > 0

\* C7: after "Maybe Later", or after closing the prompt of a prize with
\* discountPercent > 0, the coupon is live with applied = FALSE, the cart has
\* no active discount and hasUnappliedCoupon is true.
C7_IgnorePath ==
    ( /\ lastOp \in {"handleIgnoreDiscount", "handleCloseWinModal"}
      /\ Get(reported).discountPercent > 0 ) =>
        /\ coupon # Null
        /\ ~Get(coupon).applied
        /\ discountPercent = Null
        /\ discountLabel = Null
        /\ hasUnappliedCoupon

\* C8: for every discount prize and whatever the cart holds, ignoring in the
\* prompt and then applying from the banner ends with the same coupon, the
\* same cart discount fields and the same totals as applying in the prompt.
C8_IgnoreThenApplyEqualsApply ==
    (WinModalVisible /\ isWinner(wonPrize)) =>
        LET direct == handleApplyDiscount(coupon, wonPrize, discountPercent, discountLabel)
            ignored == handleIgnoreDiscount(coupon, discountPercent, discountLabel)
            later == handleApplyUnapplied(ignored[1], ignored[2], ignored[3])
        IN /\ hasUnappliedCouponOf(ignored[1])
           /\ later = direct
           /\ Get(later[1]).applied
           /\ later[2] = Some(Get(wonPrize).discountPercent)
           /\ discount(items, later[2]) = discount(items, direct[2])
           /\ finalTotal(items, later[2]) = finalTotal(items, direct[2])

\* C8 witness: a won coupon was turned down in the prompt and has then been
\* applied from the banner.
C8_Witness ==
    /\ lastOp = "handleApplyUnapplied"
    /\ wonPrize = Null
    /\ pendingTimers = 0
    /\ winCount >= 1
    /\ coupon # Null /\ Get(coupon).applied
    /\ discountPercent = Some(Get(coupon).percent)

\* C9: while a won prize awaits its decision (from handleWin until the prompt
\* is answered) the cart's discount fields and totals do not change.
C9_LedgerFrozenUntilDecision ==
    [][ (wonPrize # Null /\ wonPrize' # Null) =>
           /\ UNCHANGED <<discountPercent, discountLabel>>
           /\ subtotal(items') = subtotal(items)
           /\ discount(items', discountPercent') = discount(items, discountPercent)
           /\ finalTotal(items', discountPercent') = finalTotal(items, discountPercent) ]_vars

\* C10: at most one coupon is created in a run, and a coupon that exists keeps
\* its code, percent and wonAt and is never removed or replaced.
C10_SingleCoupon ==
    /\ [](couponsCreated <= 1)
    /\ [][ (coupon # Null) =>
              /\ coupon' # Null
              /\ Get(coupon').code = Get(coupon).code
              /\ Get(coupon').percent = Get(coupon).percent
              /\ Get(coupon').wonAt = Get(coupon).wonAt ]_vars

\* C10 witness: a second spin has completed and the one coupon has been
\* through a prompt decision and a cart action.
C10_Witness ==
    /\ couponsCreated = 1
    /\ spinCount = 2 /\ winCount = 2
    /\ coupon # Null
    /\ lastOp \in {"updateQuantity", "removeItem"}
    /\ wonPrize = Null

\* C11: after any interleaving of updateQuantity, removeItem, applyDiscount
\* and removeDiscount the memoized totals are those of the current items and
\* discount: subtotal is the sum of price x quantity, discount is
\* subtotal x percent / 100 when a discount is active and 0 otherwise,
\* finalTotal is subtotal - discount.  The mock cart (2499.00 and 1299.00,
\* one each) has subtotal 3798.00 and, at 20%, discount 759.60 and
\* finalTotal 3038.40.
C11_TotalsNeverStale ==
    /\ totals.subtotal = SumItems(items)
    /\ totals.discount = IF discountPercent = Null THEN 0
                         ELSE (SumItems(items) * Get(discountPercent)) \div 100
    /\ totals.finalTotal = totals.subtotal - totals.discount
    /\ (items = MOCK_CART_ITEMS => totals.subtotal = 379800)
    /\ (items = MOCK_CART_ITEMS /\ discountPercent = Some(20)
          => totals.discount = 75960 /\ totals.finalTotal = 303840)

C11_Witness ==
    /\ items = MOCK_CART_ITEMS
    /\ discountPercent = Some(20)
    /\ totals = [subtotal |-> 379800, discount |-> 75960, finalTotal |-> 303840]
    /\ lastOp = "updateQuantity"

\* C12: applyDiscount(25, "25% Off") on a subtotal of 1000.00 gives discount
\* 250.00 and finalTotal 750.00; removeDiscount clears discountPercent and
\* discountLabel and brings finalTotal back to the subtotal; neither call
\* changes the items.
C12_DiscountRoundTrip ==
    [][/\ (lastOp' = "applyDiscount" /\ totals.subtotal = 100000
            /\ discountPercent' = Some(25)
              => /\ discountLabel' = Some("25% Off")
                 /\ totals'.discount = 25000
                 /\ totals'.finalTotal = 75000)
       /\ (lastOp' = "applyDiscount" => items' = items)
       /\ (lastOp' \in {"removeDiscount", "removeDiscount:none"}
              => /\ discountPercent' = Null
                 /\ discountLabel' = Null
                 /\ items' = items
                 /\ totals'.subtotal = totals.subtotal
                 /\ totals'.discount = 0
                 /\ totals'.finalTotal = totals.subtotal)]_vars

C12_Witness ==
    /\ lastOp = "removeDiscount"
    /\ discountPercent = Null
    /\ discountLabel = Null
    /\ totals = [subtotal |-> 100000, discount |-> 0, finalTotal |-> 100000]

\* C13: updateQuantity with a quantity below 1, updateQuantity with an id
\* that is not in the cart and removeItem with such an id change neither
\* the items nor the discount fields nor the totals.
C13_InvalidInputIsNoOp ==
    [][lastOp' \in {"updateQuantity:belowOne", "updateQuantity:unknownId",
                    "removeItem:unknownId"}
         => UNCHANGED <<items, discountPercent, discountLabel, totals>>]_vars

C13_Witness ==
    /\ lastOp = "updateQuantity:belowOne"
    /\ discountPercent # Null
    /\ items # <<>>

\* C14: on a non-empty table selectPrize returns an entry of the table: the
\* first one, in table order, whose cumulative probability is >= the random
\* value, and the last entry when no cumulative probability reaches it.
C14_SelectPrize ==
    (drawn # Null /\ spinInput # Null /\ prizes # <<>>)
      => LET r == Get(drawn)
             selected == Get(spinInput).selected
             reaching == {i \in 1..Len(prizes) : Cumulative(prizes, i) >= r}
         IN /\ selected # Null
            /\ \E i \in 1..Len(prizes) : Get(selected) = prizes[i]
            /\ selectedPrizeRef = selected
            /\ IF reaching # {}
               THEN Get(selected) = prizes[CHOOSE i \in reaching : \A j \in reaching : i <= j]
               ELSE Get(selected) = prizes[Len(prizes)]

C14_Witness ==
    /\ prizes = SHORT_TABLE
    /\ drawn = Some(95)
    /\ spinInput # Null
    /\ Get(spinInput).selected = Some(SHORT_TABLE[2])
    /\ lastOp = "handleSpin"

\* C15: for every prize index of the 8-entry table and every number of extra
\* turns, the angle calculateWinningAngle returns is more than 6 x 360
\* degrees and at most 10 x 360 + 360 degrees, the full turns being a whole
\* number from 6 to 10.
C15_WinningAngleRange ==
    (spinInput # Null /\ Len(prizes) = 8)
      => LET in == Get(spinInput)
             winningAngle == calculateWinningAngle(prizes, in.prizeIndex, in.extra)
         IN /\ rotation = in.prev + winningAngle
            /\ 6 + in.extra \in 6..10
            /\ winningAngle > 6 * FullTurn
            /\ winningAngle <= 10 * FullTurn + FullTurn

\* C16: once a spin has set its target, the arc of the drawn prize (arcs of
\* 360 / size degrees laid clockwise in table order from the gradient
\* origin at -90 degrees) turned by the rotation before the spin plus
\* calculateWinningAngle lies under the pointer at the top, for every prize
\* index, every number of extra turns and every rotation a spin starts from.
C16_ArcUnderPointer ==
    (spinInput # Null /\ prizes # <<>>)
      => LET in == Get(spinInput)
         IN /\ rotation = in.prev + calculateWinningAngle(prizes, in.prizeIndex, in.extra)
            /\ arcPosition(prizes, in.prizeIndex, rotation) = PointerAngle

C16_Witness ==
    /\ lastOp = "handleTransitionEnd"
    /\ spinInput # Null
    /\ Get(spinInput).prizeIndex = 4
    /\ Get(spinInput).extra = 2
    /\ wonPrize = Some(PRIZES[5])
    /\ rotation = 8 * FullTurn + 2475
    /\ arcCentre(prizes, 4) = 1125

\* C17: a spin asked of a wheel with an empty table ends in an error and
\* never enters the spinning state: the page is never left with isSpinning
\* true and no prize pending.
C17_EmptyTableFailsFast ==
    prizes = EMPTY_TABLE => ~isSpinning /\ spinInput = Null /\ rotation # NaN

\* C18: a spin request made while isSpinning is true does nothing: no prize
\* is drawn, the pending prize and the rotation target stay as they are,
\* and no second win is reported (wins never outnumber the spins started).
C18_SpinWhileSpinningIsNoOp ==
    [][/\ (lastOp' = "handleSpin:whileSpinning"
              => /\ isSpinning /\ isSpinning'
                 /\ UNCHANGED <<selectedPrizeRef, rotation, spinInput, drawn,
                                spinCount, winCount, reported, wonPrize, coupon>>)
       /\ winCount' <= spinCount']_vars

C18_Witness ==
    /\ lastOp = "handleSpin:whileSpinning"
    /\ isSpinning
    /\ selectedPrizeRef # Null
    /\ spinCount = 1
    /\ winCount = 0

\* C19: the wheel can be opened only while no spin result is pending: in
\* every state where wonPrize is set, the open-wheel action is not available.
C19_NoOpenWhileResultPending ==
    wonPrize # Null => ~OpenWheelAvailable

\* C20 as stated: for every prize index the alignment part of the winning
\* angle, 360 - segmentCenter + 90, is congruent modulo 360 to
\* (360 - ((segmentCenter + 90) mod 360)) mod 360.
C20_FormulasEquivalent ==
    (spinInput # Null /\ prizes # <<>>)
      => LET in == Get(spinInput)
             alignment == rotation - in.prev - (6 + in.extra) * FullTurn
             centre == ((2 * in.prizeIndex + 1) * FullTurn) \div (2 * Len(prizes))
         IN Normalize(alignment) = (FullTurn - ((centre + 900) % FullTurn)) % FullTurn

\* C20 amended: for every prize index the alignment part of the winning
\* angle is 450 - segmentCenter, congruent modulo 360 to 90 - segmentCenter,
\* which is the value of (360 - ((segmentCenter + 90) mod 360)) mod 360
\* plus half a turn.
C20_AlignmentHalfTurnFromConversion ==
    (spinInput # Null /\ prizes # <<>>)
      => LET in == Get(spinInput)
             alignment == rotation - in.prev - (6 + in.extra) * FullTurn
             centre == ((2 * in.prizeIndex + 1) * FullTurn) \div (2 * Len(prizes))
             conversion == (FullTurn - ((centre + 900) % FullTurn)) % FullTurn
         IN /\ alignment = 4500 - centre
            /\ Normalize(alignment) = Normalize(900 - centre)
            /\ Normalize(alignment) = Normalize(conversion + 1800)

C20_Witness ==
    /\ spinInput # Null
    /\ prizes = PRIZES
    /\ Get(spinInput).prizeIndex = 0
    /\ Get(spinInput).extra = 0
    /\ rotation = 6 * FullTurn + 4275
    /\ Normalize(rotation) = 675

\* C21: the rotation of the wheel only grows over a session: each spin adds
\* a positive angle, and no action, closing the wheel and opening it again
\* included, brings the rotation back to zero; so a wheel on screen after a
\* spin has been made never shows rotation 0.
C21_RotationNeverReset ==
    (spinCount > 0 /\ wheelMounted) => rotation > 0

\* C22: the page's prize table has 8 entries with pairwise distinct ids,
\* every probability above 0, probabilities summing to 1.00, every
\* discountPercent a whole number >= 0, and an entry with discountPercent 0.
C22_ReferenceTableValid ==
    /\ Len(prizes) = 8
    /\ \A i, j \in 1..Len(prizes) : i # j => prizes[i].id # prizes[j].id
    /\ \A i \in 1..Len(prizes) : prizes[i].probability > 0
    /\ Cumulative(prizes, Len(prizes)) = 100
    /\ \A i \in 1..Len(prizes) : prizes[i].discountPercent \in Nat
    /\ \E i \in 1..Len(prizes) : prizes[i].discountPercent = 0

C22_Witness ==
    /\ lastOp = "handleSpin"
    /\ prizes = PRIZES
    /\ selectedPrizeRef # Null
    /\ Get(selectedPrizeRef).discountPercent = 0

\* C23: a table whose probabilities do not sum to 1.00 is rejected when it
\* is loaded: with such a table no spin is ever started and no prize is
\* ever drawn or reported.
C23_MalformedTableRejected ==
    Cumulative(prizes, Len(prizes)) # 100
      => /\ spinCount = 0
         /\ ~isSpinning
         /\ selectedPrizeRef = Null
         /\ reported = Null

\* C24: applyCoupon and ignoreCoupon change only the applied flag of the
\* live coupon (to true, to false), keep its code, percent and wonAt, never
\* create or remove a coupon and do nothing when no coupon is live;
\* clearCoupon removes the live coupon, after which hasSpun and
\* hasUnappliedCoupon are both false.
C24_CouponOpsFrame ==
    [][/\ (lastOp' \in {"applyCoupon", "ignoreCoupon"}
              => /\ coupon # Null /\ coupon' # Null
                 /\ Get(coupon').applied = (lastOp' = "applyCoupon")
                 /\ Get(coupon').code = Get(coupon).code
                 /\ Get(coupon').percent = Get(coupon).percent
                 /\ Get(coupon').wonAt = Get(coupon).wonAt)
       /\ (lastOp' \in {"applyCoupon:none", "ignoreCoupon:none"}
              => /\ coupon = Null /\ coupon' = Null
                 /\ UNCHANGED <<items, discountPercent, discountLabel, totals>>)
       /\ (lastOp' = "clearCoupon"
              => /\ coupon' = Null
                 /\ ~hasSpunOf(coupon')
                 /\ ~hasUnappliedCouponOf(coupon'))]_vars

C24_Witness ==
    /\ lastOp = "applyCoupon"
    /\ coupon = Some([code |-> "SPIN-25-K3F9", percent |-> 25, applied |-> TRUE,
                      wonAt |-> 2000])

\* C29: the cart's discount does not follow the coupon object or the items:
\* ignoreCoupon and clearCoupon leave discountPercent and discountLabel as
\* they are, updateQuantity and removeItem leave the discount fields and the
\* coupon as they are, applyDiscount and removeDiscount leave the items as
\* they are.
C29_DiscountIndependent ==
    [][/\ (lastOp' \in {"ignoreCoupon", "ignoreCoupon:none", "clearCoupon"}
              => UNCHANGED <<discountPercent, discountLabel, items>>)
       /\ (lastOp' \in {"updateQuantity", "updateQuantity:belowOne",
                         "updateQuantity:unknownId", "removeItem", "removeItem:unknownId"}
              => UNCHANGED <<discountPercent, discountLabel, coupon>>)
       /\ (lastOp' \in {"applyDiscount", "removeDiscount", "removeDiscount:none"}
              => UNCHANGED <<items, coupon>>)]_vars

C29_Witness ==
    /\ lastOp = "ignoreCoupon"
    /\ coupon # Null
    /\ ~Get(coupon).applied
    /\ discountPercent = Some(Get(coupon).percent)
    /\ totals.discount > 0

\* C25: an ignored coupon stays available: once a coupon is live, every
\* later state has the same coupon (code, percent, wonAt) live, whatever is
\* done to the cart, and hasUnappliedCoupon, true after the coupon is
\* ignored, turns false only when the user applies it.
C25_IgnoredCouponRemains ==
    [][/\ (coupon # Null
              => /\ coupon' # Null
                 /\ Get(coupon').code = Get(coupon).code
                 /\ Get(coupon').percent = Get(coupon).percent
                 /\ Get(coupon').wonAt = Get(coupon).wonAt)
       /\ (lastOp' \in {"handleIgnoreDiscount", "handleCloseWinModal"} /\ coupon # Null
              => hasUnappliedCouponOf(coupon'))
       /\ (hasUnappliedCoupon /\ ~hasUnappliedCouponOf(coupon')
              => lastOp' \in {"handleApplyDiscount", "handleApplyUnapplied"})]_vars

C25_Witness ==
    /\ lastOp = "removeItem"
    /\ hasUnappliedCoupon
    /\ wonPrize = Null
    /\ ~isWinModalOpen
    /\ pendingTimers = 0
    /\ UnusedDiscountBannerShown

\* C26: confetti is gated on a winning prompt: a confetti timer is pending
\* only while the prompt is open with a prize of discountPercent > 0, never
\* for a zero-discount prize; at most one timer is set per opening of the
\* prompt; the timer is cancelled when the prompt closes before it fires,
\* so confetti fires only with the winning prompt open.
C26_ConfettiGate ==
    [][/\ (confettiTimer'
              => /\ isWinModalOpen'
                 /\ wonPrize' # Null
                 /\ Get(wonPrize').discountPercent > 0)
       /\ confettiCount' <= 1
       /\ (confettiTimer /\ ~isWinModalOpen' => ~confettiTimer')
       /\ (lastOp' = "fireConfetti" /\ confettiTimer
              => /\ isWinModalOpen /\ isWinner(wonPrize)
                 /\ ~confettiTimer')]_vars

C26_Witness ==
    /\ lastOp = "fireConfetti"
    /\ isWinModalOpen
    /\ isWinner(wonPrize)
    /\ confettiCount = 1
    /\ ~confettiTimer

\* C27: a spin cannot be cancelled: while isSpinning is true the wheel modal
\* is open and its wheel is mounted; a click on the backdrop leaves it open
\* and the close button is not there; the modal closes during a spin only
\* when the spin reports its outcome.
C27_NoCancelMidSpin ==
    [][/\ (isSpinning' => isWheelModalOpen' /\ wheelMounted')
       /\ (isSpinning /\ lastOp' \in {"closeWheelBackdrop", "closeWheelButton"}
              => isWheelModalOpen' /\ isSpinning'
                 /\ UNCHANGED <<selectedPrizeRef, rotation>>)
       /\ (isSpinning /\ ~isWheelModalOpen'
              => lastOp' = "handleTransitionEnd" /\ winCount' = winCount + 1)]_vars

C27_Witness ==
    /\ lastOp = "closeWheelBackdrop"
    /\ isSpinning
    /\ isWheelModalOpen
    /\ selectedPrizeRef # Null

C30_DiscountIffAppliedCoupon ==
    /\ (discountPercent # Null) <=> (coupon # Null /\ Get(coupon).applied)
    /\ (discountPercent # Null /\ coupon # Null)
          => Get(discountPercent) = Get(coupon).percent
    /\ ~(UnusedDiscountBannerShown /\ discountPercent # Null)

\* C31: the wheel modal and the decision prompt are never open at the same
\* time: in no state is isWheelModalOpen true while the prompt is open and
\* showing a prize, whatever the order of clicks, transitionend and the
\* 300 ms prompt timer.
C31_ModalsNeverBothOpen ==
    ~(isWheelModalOpen /\ isWinModalOpen /\ wonPrize # Null)

\* C32: whenever isWinModalOpen is true a won prize is present.
C32_OpenPromptHasPrize ==
    isWinModalOpen => wonPrize # Null

\* C33: through the page's actions a discount that is active in the cart
\* stays active with the same percent in every later state, and a live
\* coupon is never removed: no step of the page takes discountPercent from
\* a value to none or to another value, and none takes coupon from an
\* object to null.
C33_DiscountStaysActive ==
    [][/\ (discountPercent # Null => discountPercent' = discountPercent)
       /\ (coupon # Null => coupon' # Null)]_vars

C33_Witness ==
    /\ lastOp = "handleCloseWinModal"
    /\ discountPercent = Some(30)
    /\ coupon # Null
    /\ ~Get(coupon).applied

\* C34: in every state every cart item has quantity >= 1 and the item ids
\* are pairwise distinct; no step adds an item id; and with discountPercent
\* absent or between 0 and 100 the rendered totals satisfy
\* 0 <= discount <= subtotal and 0 <= finalTotal <= subtotal.
C34_CartWellFormed ==
    /\ [](/\ \A i \in 1..Len(items) : items[i].quantity >= 1
          /\ \A i, j \in 1..Len(items) : items[i].id = items[j].id => i = j
          /\ (discountPercent = Null \/ Get(discountPercent) \in 0..100)
                => /\ 0 <= totals.discount /\ totals.discount <= totals.subtotal
                   /\ 0 <= totals.finalTotal /\ totals.finalTotal <= totals.subtotal)
    /\ [][{items'[i].id : i \in 1..Len(items')} \subseteq {items[i].id : i \in 1..Len(items)}]_vars

C34_Witness ==
    /\ lastOp = "updateQuantity:belowOne"
    /\ Len(items) = 1
    /\ items[1].id = "table-001"
    /\ items[1].quantity = 2
    /\ discountPercent = Some(30)
    /\ totals.discount = 77940
    /\ totals.finalTotal = 181860

\* C35: once a spin has set its target, the text label of the drawn prize
\* (label i turned by (360 / size) * i + (360 / size) / 2 - 90 degrees
\* clockwise from the 3 o'clock direction) lies, after the settled
\* rotation, under the pointer at the top, where the drawn prize's
\* coloured arc lies.
C35_LabelUnderPointer ==
    (spinInput # Null /\ prizes # <<>>)
      => LET in == Get(spinInput)
         IN /\ labelPosition(prizes, in.prizeIndex, rotation) = PointerAngle
            /\ labelPosition(prizes, in.prizeIndex, rotation)
                  = arcPosition(prizes, in.prizeIndex, rotation)

====
